---- MODULE Spec2Model ----
(***************************************************************************)
(* A model of the character-cell UI toolkit: the focus container Grid and  *)
(* the widget contract Element (src/src/lib.rs), the styled Canvas         *)
(* (src/src/canvas.rs) and the dirty-tracking decorator Updater            *)
(* (src/src/util.rs).                                                      *)
(*                                                                         *)
(* Rust indices are 0-based and are kept 0-based in the model: entry i of  *)
(* a grid is elems[i + 1] of the TLA+ sequence, cell (x, y) of a canvas is *)
(* pixels[y * width + x + 1].                                              *)
(***************************************************************************)
EXTENDS Integers, Sequences, FiniteSets, TLC

VARIABLES
    grids,      \* the Grid values built so far: grids[g] = [elems, focus]
    crashed,    \* TRUE once a respond has overflowed the stack (it never returns)
    nadded,     \* number of add_elem calls made so far
    nconn,      \* number of successful connect_* calls made so far
    last,       \* the most recent Grid operation: its arguments and result
    log,        \* the Element hook calls made by the most recent operation, in order
    canvas,     \* the Canvas: [width, height, pixels], pixels row-major [ch, flags]
    nwrites,    \* number of Canvas write calls made so far
    cprev,      \* the Canvas as it was before the most recent write call
    clast,      \* the most recent Canvas call: its arguments
    rendered,   \* what the most recent rendering of the Canvas wrote, and whether it panicked
    upd,        \* the Updater: [updated, inner], inner a TextScroller
    ufresh,     \* no advance since construction or the last call that marks the Updater
    ulast       \* the most recent Updater call: its input, verdict and forwarded calls

gridVars   == <<grids, crashed, nadded, nconn, last, log>>
canvasVars == <<canvas, nwrites, cprev, clast, rendered>>
updVars    == <<upd, ufresh, ulast>>
vars       == <<grids, crashed, nadded, nconn, last, log, canvas, nwrites, cprev, clast, rendered, upd, ufresh, ulast>>

(***************************************************************************)
(* Bounds of the model.                                                    *)
(***************************************************************************)
MaxGrids    == 2    \* Grid values built
MaxAdded    == 1    \* add_elem calls
MaxConnects == 1    \* successful connect_* calls
MaxLines    == 3    \* lines of a TextScroller's text
MaxHeight   == 2    \* height of a TextScroller's window
MaxCanvasWidth  == 2    \* width of the Canvas
MaxCanvasHeight == 2    \* height of the Canvas
MaxTextLen  == 3    \* chars of a text written to the Canvas
MaxWrites   == 2    \* Canvas write calls
MaxLongTextLen == 4 \* chars of the text of a single write to a new Canvas

(***************************************************************************)
(* src/src/lib.rs: Response, the input symbols, the Element contract       *)
(***************************************************************************)
TL_IDX == 0
BR_IDX == 1

UP    == "k"
DOWN  == "j"
RIGHT == "l"
LEFT  == "h"
OTHERKEY == "x"
Inputs == {UP, DOWN, RIGHT, LEFT, OTHERKEY}

Contained == [tag |-> "Contained", targets |-> <<>>]
MoveUp    == [tag |-> "MoveUp",    targets |-> <<>>]
MoveDown  == [tag |-> "MoveDown",  targets |-> <<>>]
MoveRight == [tag |-> "MoveRight", targets |-> <<>>]
MoveLeft  == [tag |-> "MoveLeft",  targets |-> <<>>]
Alert(ts) == [tag |-> "Alert",     targets |-> ts]

MoveTags == {"MoveUp", "MoveDown", "MoveRight", "MoveLeft"}

\* Element::respond, the default body.
Element_respond(input) ==
    CASE input = UP    -> MoveUp
      [] input = DOWN  -> MoveDown
      [] input = RIGHT -> MoveRight
      [] input = LEFT  -> MoveLeft
      [] OTHER         -> Contained

\* Option<&[ElemHandle]>: the result of Element::alert.
None      == [some |-> FALSE, targets |-> <<>>]
Some(ts)  == [some |-> TRUE,  targets |-> ts]

(***************************************************************************)
(* Widgets.  A boxed Element is one of                                     *)
(*   Text     src/src/lib.rs Text: the default respond and alert.  Its     *)
(*            updated flag is read by Text::draw alone and is left out;    *)
(*   Alerter  an implementor of the contract that overrides respond (any   *)
(*            non-directional input answers Alert(RespondTargets)) and     *)
(*            alert (answers Some(AlertTargets));                          *)
(*   Relay    an implementor that overrides alert alone (answers           *)
(*            Some(RelayTargets));                                         *)
(*   Grid     a nested Grid, grids[gid].                                   *)
(***************************************************************************)
Text_new ==
    [kind |-> "Text", selected |-> FALSE, gid |-> 0]

Alerter_new ==
    [kind |-> "Alerter", selected |-> FALSE, gid |-> 0]

Relay_new ==
    [kind |-> "Relay", selected |-> FALSE, gid |-> 0]

BoxGrid(g) ==
    [kind |-> "Grid", selected |-> FALSE, gid |-> g]

\* The handles an Alerter names, by index.  BR_IDX + 1 is the first entry
\* add_elem appends: no entry of a grid that has only its two seeds, an
\* Alerter that names itself when it is that entry.
RespondTargets == <<BR_IDX + 1, BR_IDX>>
AlertTargets   == <<BR_IDX + 1>>
\* The handle a Relay names: with an Alerter on BR_IDX and a Relay on
\* BR_IDX + 1 the two name each other.
RelayTargets   == <<BR_IDX>>

Leaves == {Text_new, Alerter_new}

\* The most entries a grid can hold.
MaxElems == 2 + MaxAdded

ElemHolder_new(elem) ==
    [elem |-> elem, up |-> -1, down |-> -1, right |-> -1, left |-> -1]

Holder(gs, g, i) == gs[g].elems[i + 1]
Focus(gs, g)     == gs[g].elems[gs[g].focus + 1]
NumElems(gs, g)  == Len(gs[g].elems)

Call(g, i, hook) == [g |-> g, i |-> i, hook |-> hook]

(***************************************************************************)
(* The hooks, threaded through st = [gs, log, overflow]: gs the grids, log *)
(* the hook calls made so far, overflow whether the stack has overflowed.  *)
(***************************************************************************)
RECURSIVE Elem_select(_, _, _)
RECURSIVE Elem_unselect(_, _, _)
RECURSIVE Elem_enter(_, _, _, _)
RECURSIVE Elem_advance(_, _, _)
RECURSIVE Elem_respond(_, _, _, _)
RECURSIVE Grid_respond(_, _, _)
RECURSIVE alert_all(_, _, _, _)

\* Text::select (and the Alerter's).
Leaf_select(st, g, i) ==
    [st EXCEPT !.gs[g].elems[i + 1].elem.selected = TRUE]

\* Text::unselect (and the Alerter's).
Leaf_unselect(st, g, i) ==
    [st EXCEPT !.gs[g].elems[i + 1].elem.selected = FALSE]

\* Text::advance (and the Alerter's).
Leaf_advance(st, g, i) == st

\* impl Element for Grid: select.
Grid_select(st, g) ==
    Elem_select([st EXCEPT !.gs[g].focus = TL_IDX], g, TL_IDX)

\* impl Element for Grid: unselect.
Grid_unselect(st, g) ==
    Elem_unselect(st, g, st.gs[g].focus)

\* impl Element for Grid: enter_top.
Grid_enter_top(st, g) ==
    Elem_enter([st EXCEPT !.gs[g].focus = TL_IDX], g, TL_IDX, "enter_top")

\* impl Element for Grid: enter_bottom.
Grid_enter_bottom(st, g) ==
    Elem_enter([st EXCEPT !.gs[g].focus = BR_IDX], g, BR_IDX, "enter_bottom")

\* impl Element for Grid: enter_right.
Grid_enter_right(st, g) ==
    Elem_enter([st EXCEPT !.gs[g].focus = BR_IDX], g, BR_IDX, "enter_right")

\* impl Element for Grid: enter_left.
Grid_enter_left(st, g) ==
    Elem_enter([st EXCEPT !.gs[g].focus = TL_IDX], g, TL_IDX, "enter_left")

Grid_enter(st, g, hook) ==
    CASE hook = "enter_top"    -> Grid_enter_top(st, g)
      [] hook = "enter_bottom" -> Grid_enter_bottom(st, g)
      [] hook = "enter_right"  -> Grid_enter_right(st, g)
      [] hook = "enter_left"   -> Grid_enter_left(st, g)

\* impl Element for Grid: advance.
RECURSIVE Grid_advance_from(_, _, _)
Grid_advance_from(st, g, i) ==
    IF i >= NumElems(st.gs, g) THEN st
    ELSE Grid_advance_from(Elem_advance(st, g, i), g, i + 1)

Grid_advance(st, g) == Grid_advance_from(st, g, 0)

\* Dynamic dispatch of elem.select() on entry i of grid g.
Elem_select(st, g, i) ==
    LET w  == Holder(st.gs, g, i).elem
        s1 == [st EXCEPT !.log = Append(@, Call(g, i, "select"))]
    IN  IF w.kind = "Grid" THEN Grid_select(s1, w.gid) ELSE Leaf_select(s1, g, i)

\* Dynamic dispatch of elem.unselect().
Elem_unselect(st, g, i) ==
    LET w  == Holder(st.gs, g, i).elem
        s1 == [st EXCEPT !.log = Append(@, Call(g, i, "unselect"))]
    IN  IF w.kind = "Grid" THEN Grid_unselect(s1, w.gid) ELSE Leaf_unselect(s1, g, i)

\* Dynamic dispatch of elem.enter_*(): a leaf keeps the contract's default
\* body, self.select().
Elem_enter(st, g, i, hook) ==
    LET w  == Holder(st.gs, g, i).elem
        s1 == [st EXCEPT !.log = Append(@, Call(g, i, hook))]
    IN  IF w.kind = "Grid" THEN Grid_enter(s1, w.gid, hook)
        ELSE Leaf_select([s1 EXCEPT !.log = Append(@, Call(g, i, "select"))], g, i)

\* Dynamic dispatch of elem.advance().
Elem_advance(st, g, i) ==
    LET w  == Holder(st.gs, g, i).elem
        s1 == [st EXCEPT !.log = Append(@, Call(g, i, "advance"))]
    IN  IF w.kind = "Grid" THEN Grid_advance(s1, w.gid) ELSE Leaf_advance(s1, g, i)

\* Dynamic dispatch of elem.alert(): the Alerter and the Relay override the
\* default.
Elem_alert(w) ==
    CASE w.kind = "Alerter" -> Some(AlertTargets)
      [] w.kind = "Relay"   -> Some(RelayTargets)
      [] OTHER              -> None

(***************************************************************************)
(* Grid: focus moves, alert dispatch, respond                              *)
(***************************************************************************)
\* move_up that enters the neighbor before it unselects the entry it leaves.
move_up_enters_first(st, g) ==
    IF Focus(st.gs, g).up >= 0
    THEN LET old == st.gs[g].focus
             s1  == [st EXCEPT !.gs[g].focus = Focus(st.gs, g).up]
             s2  == Elem_enter(s1, g, s1.gs[g].focus, "enter_bottom")
         IN  [st |-> Elem_unselect(s2, g, old), resp |-> Contained]
    ELSE [st |-> st, resp |-> MoveUp]


\* Grid::move_up
move_up(st, g) ==
    IF Focus(st.gs, g).up >= 0
    THEN LET s1 == Elem_unselect(st, g, st.gs[g].focus)
             s2 == [s1 EXCEPT !.gs[g].focus = Focus(s1.gs, g).up]
         IN  [st |-> Elem_enter(s2, g, s2.gs[g].focus, "enter_bottom"), resp |-> Contained]
    ELSE [st |-> st, resp |-> MoveUp]

\* move_down with the hook of the wrong edge.
move_down_enters_bottom(st, g) ==
    IF Focus(st.gs, g).down >= 0
    THEN LET s1 == Elem_unselect(st, g, st.gs[g].focus)
             s2 == [s1 EXCEPT !.gs[g].focus = Focus(s1.gs, g).down]
         IN  [st |-> Elem_enter(s2, g, s2.gs[g].focus, "enter_bottom"), resp |-> Contained]
    ELSE [st |-> st, resp |-> MoveDown]

\* Grid::move_down
move_down(st, g) ==
    IF Focus(st.gs, g).down >= 0
    THEN LET s1 == Elem_unselect(st, g, st.gs[g].focus)
             s2 == [s1 EXCEPT !.gs[g].focus = Focus(s1.gs, g).down]
         IN  [st |-> Elem_enter(s2, g, s2.gs[g].focus, "enter_top"), resp |-> Contained]
    ELSE [st |-> st, resp |-> MoveDown]

\* move_right that answers Contained when the focused entry has no neighbor.
move_right_swallows(st, g) ==
    IF Focus(st.gs, g).right >= 0
    THEN LET s1 == Elem_unselect(st, g, st.gs[g].focus)
             s2 == [s1 EXCEPT !.gs[g].focus = Focus(s1.gs, g).right]
         IN  [st |-> Elem_enter(s2, g, s2.gs[g].focus, "enter_left"), resp |-> Contained]
    ELSE [st |-> st, resp |-> Contained]


\* Grid::move_right
move_right(st, g) ==
    IF Focus(st.gs, g).right >= 0
    THEN LET s1 == Elem_unselect(st, g, st.gs[g].focus)
             s2 == [s1 EXCEPT !.gs[g].focus = Focus(s1.gs, g).right]
         IN  [st |-> Elem_enter(s2, g, s2.gs[g].focus, "enter_left"), resp |-> Contained]
    ELSE [st |-> st, resp |-> MoveRight]

\* move_left that unselects the focused entry before it looks for a neighbor.
move_left_unselects_first(st, g) ==
    LET s1 == Elem_unselect(st, g, st.gs[g].focus)
    IN  IF Focus(s1.gs, g).left >= 0
        THEN LET s2 == [s1 EXCEPT !.gs[g].focus = Focus(s1.gs, g).left]
             IN  [st |-> Elem_enter(s2, g, s2.gs[g].focus, "enter_right"), resp |-> Contained]
        ELSE [st |-> s1, resp |-> MoveLeft]

\* Grid::move_left
move_left(st, g) ==
    IF Focus(st.gs, g).left >= 0
    THEN LET s1 == Elem_unselect(st, g, st.gs[g].focus)
             s2 == [s1 EXCEPT !.gs[g].focus = Focus(s1.gs, g).left]
         IN  [st |-> Elem_enter(s2, g, s2.gs[g].focus, "enter_right"), resp |-> Contained]
    ELSE [st |-> st, resp |-> MoveLeft]

\* The recursion of alert_all has no depth limit of its own; the stack has.
\* No acyclic chain of alerts in a grid of MaxElems entries is deeper than
\* MaxElems + 1 frames, so only a cycle reaches the limit.
StackLimit == MaxElems + 2

\* alert_all that gives up at the first handle that names no entry.
alert_all_stops_at_invalid(st, g, targets, d) ==
    IF st.overflow \/ targets = <<>> THEN st
    ELSE LET t == Head(targets)
         IN  IF t >= NumElems(st.gs, g) THEN st
             ELSE LET a  == Elem_alert(Holder(st.gs, g, t).elem)
                      s0 == [st EXCEPT !.log = Append(@, Call(g, t, "alert"))]
                      s1 == IF ~a.some THEN s0
                            ELSE IF d >= StackLimit THEN [s0 EXCEPT !.overflow = TRUE]
                            ELSE alert_all(s0, g, a.targets, d + 1)
                  IN  alert_all(s1, g, Tail(targets), d)

\* alert_all with a depth limit: at the limit it stops recursing and returns.
alert_all_depth_limited(st, g, targets, d) ==
    IF st.overflow \/ targets = <<>> THEN st
    ELSE LET t  == Head(targets)
             s1 == IF t < NumElems(st.gs, g)
                   THEN LET a  == Elem_alert(Holder(st.gs, g, t).elem)
                            s0 == [st EXCEPT !.log = Append(@, Call(g, t, "alert"))]
                        IN  IF ~a.some THEN s0
                            ELSE IF d >= StackLimit THEN s0
                            ELSE alert_all(s0, g, a.targets, d + 1)
                   ELSE st
         IN  alert_all(s1, g, Tail(targets), d)

\* Grid::alert_all, called at recursion depth d: for t in targets, alert the
\* entry t names when there is one, and recurse into what it answers.
alert_all(st, g, targets, d) ==
    IF st.overflow \/ targets = <<>> THEN st
    ELSE LET t  == Head(targets)
             s1 == IF t < NumElems(st.gs, g)
                   THEN LET a  == Elem_alert(Holder(st.gs, g, t).elem)
                            s0 == [st EXCEPT !.log = Append(@, Call(g, t, "alert"))]
                        IN  IF ~a.some THEN s0
                            ELSE IF d >= StackLimit THEN [s0 EXCEPT !.overflow = TRUE]
                            ELSE alert_all(s0, g, a.targets, d + 1)
                   ELSE st
         IN  alert_all(s1, g, Tail(targets), d)

\* Dynamic dispatch of elem.respond(input): [st, resp].
Elem_respond(st, g, i, input) ==
    LET w  == Holder(st.gs, g, i).elem
        s1 == [st EXCEPT !.log = Append(@, Call(g, i, "respond"))]
    IN  CASE w.kind = "Grid"    -> [st |-> Grid_respond(s1, w.gid, input).st,
                                    resp |-> Grid_respond(s1, w.gid, input).resp]
          [] w.kind = "Alerter" -> [st |-> s1,
                                    resp |-> IF input \in {UP, DOWN, RIGHT, LEFT}
                                             THEN Element_respond(input)
                                             ELSE Alert(RespondTargets)]
          [] OTHER              -> [st |-> s1, resp |-> Element_respond(input)]

\* Grid::respond that selects its focused entry again when the entry has
\* handled the input.
Grid_respond_selects_again(st, g, input) ==
    LET r == Elem_respond(st, g, st.gs[g].focus, input)
        m == CASE r.st.overflow           -> [st |-> r.st, resp |-> Contained]
               [] r.resp.tag = "MoveUp"    -> move_up(r.st, g)
               [] r.resp.tag = "MoveDown"  -> move_down(r.st, g)
               [] r.resp.tag = "MoveRight" -> move_right(r.st, g)
               [] r.resp.tag = "MoveLeft"  -> move_left(r.st, g)
               [] r.resp.tag = "Contained" ->
                     [st |-> Elem_select(r.st, g, r.st.gs[g].focus), resp |-> Contained]
               [] r.resp.tag = "Alert"     ->
                     [st |-> alert_all(r.st, g, r.resp.targets, 1), resp |-> Contained]
    IN  [st |-> m.st, resp |-> m.resp, child |-> r.resp]

\* impl Element for Grid: respond.  [st, resp, child]: child is the verdict
\* of the focused entry.
Grid_respond(st, g, input) ==
    LET r == Elem_respond(st, g, st.gs[g].focus, input)
        m == CASE r.st.overflow           -> [st |-> r.st, resp |-> Contained]
               [] r.resp.tag = "MoveUp"    -> move_up(r.st, g)
               [] r.resp.tag = "MoveDown"  -> move_down(r.st, g)
               [] r.resp.tag = "MoveRight" -> move_right(r.st, g)
               [] r.resp.tag = "MoveLeft"  -> move_left(r.st, g)
               [] r.resp.tag = "Contained" -> [st |-> r.st, resp |-> Contained]
               [] r.resp.tag = "Alert"     ->
                     [st |-> alert_all(r.st, g, r.resp.targets, 1), resp |-> Contained]
    IN  [st |-> m.st, resp |-> m.resp, child |-> r.resp]

(***************************************************************************)
(* Grid: handles and wiring                                                *)
(***************************************************************************)
\* ElemHandle(usize): the index is all a handle carries.  origin, the grid
\* whose top_left / bottom_right / add_elem returned the handle, is kept
\* beside it for the properties only; no operation reads it.
ElemHandle(origin, idx) == [origin |-> origin, idx |-> idx]
NoHandle == ElemHandle(0, 0)

\* Grid::top_left
top_left(g) == ElemHandle(g, TL_IDX)

\* Grid::bottom_right
bottom_right(g) == ElemHandle(g, BR_IDX)

\* Every handle a caller can hold: ElemHandle's field is private, so handles
\* come from top_left, bottom_right and add_elem of the grids built so far.
Handles(gs) ==
    UNION {{ElemHandle(g, i) : i \in 0..(NumElems(gs, g) - 1)} : g \in 1..Len(gs)}

Ok       == [tag |-> "Ok",  handle |-> NoHandle]
\* HandleOutOfBounds(handle)
HandleOutOfBounds(h) == [tag |-> "Err", handle |-> h]

\* Vec::get(i).is_some()
InBounds(gs, g, h) == h.idx < NumElems(gs, g)

\* connect_up_down that takes the old lower neighbor's link back.
connect_up_down_unlinks_old(gs, g, up, down) ==
    IF ~InBounds(gs, g, up) THEN [gs |-> gs, res |-> HandleOutOfBounds(up)]
    ELSE IF ~InBounds(gs, g, down) THEN [gs |-> gs, res |-> HandleOutOfBounds(down)]
    ELSE LET old == gs[g].elems[up.idx + 1].down
             g0 == IF old >= 0 THEN [gs EXCEPT ![g].elems[old + 1].up = -1] ELSE gs
             g1 == [g0 EXCEPT ![g].elems[up.idx + 1].down = down.idx]
             g2 == [g1 EXCEPT ![g].elems[down.idx + 1].up = up.idx]
         IN  [gs |-> g2, res |-> Ok]


\* connect_up_down that does not look up its second handle.
connect_up_down_unchecked(gs, g, up, down) ==
    IF ~InBounds(gs, g, up) THEN [gs |-> gs, res |-> HandleOutOfBounds(up)]
    ELSE LET g1 == [gs EXCEPT ![g].elems[up.idx + 1].down = down.idx]
             g2 == IF InBounds(gs, g, down)
                   THEN [g1 EXCEPT ![g].elems[down.idx + 1].up = up.idx]
                   ELSE g1
         IN  [gs |-> g2, res |-> Ok]

\* Grid::connect_up_down: [gs, res]
connect_up_down(gs, g, up, down) ==
    IF ~InBounds(gs, g, up) THEN [gs |-> gs, res |-> HandleOutOfBounds(up)]
    ELSE IF ~InBounds(gs, g, down) THEN [gs |-> gs, res |-> HandleOutOfBounds(down)]
    ELSE LET g1 == [gs EXCEPT ![g].elems[up.idx + 1].down = down.idx]
             g2 == [g1 EXCEPT ![g].elems[down.idx + 1].up = up.idx]
         IN  [gs |-> g2, res |-> Ok]

\* connect_left_right that writes the first link before it looks up the
\* second handle.
connect_left_right_partial(gs, g, left, right) ==
    IF ~InBounds(gs, g, left) THEN [gs |-> gs, res |-> HandleOutOfBounds(left)]
    ELSE LET g1 == [gs EXCEPT ![g].elems[left.idx + 1].right = right.idx]
         IN  IF ~InBounds(gs, g, right) THEN [gs |-> g1, res |-> HandleOutOfBounds(right)]
             ELSE [gs |-> [g1 EXCEPT ![g].elems[right.idx + 1].left = left.idx],
                   res |-> Ok]

\* Grid::connect_left_right: [gs, res]
connect_left_right(gs, g, left, right) ==
    IF ~InBounds(gs, g, left) THEN [gs |-> gs, res |-> HandleOutOfBounds(left)]
    ELSE IF ~InBounds(gs, g, right) THEN [gs |-> gs, res |-> HandleOutOfBounds(right)]
    ELSE LET g1 == [gs EXCEPT ![g].elems[left.idx + 1].right = right.idx]
             g2 == [g1 EXCEPT ![g].elems[right.idx + 1].left = left.idx]
         IN  [gs |-> g2, res |-> Ok]

(***************************************************************************)
(* The Grid operations a caller can make.  A Box<Element> moved into a     *)
(* grid is out of the caller's reach, so calls go to the grids no other    *)
(* grid holds.                                                             *)
(***************************************************************************)
Op(op, input, h1, h2, res, resp, child) ==
    [op |-> op, input |-> input, h1 |-> h1, h2 |-> h2,
     res |-> res, resp |-> resp, child |-> child]

NoRes == [tag |-> "None", handle |-> NoHandle]

\* The caller keeps one top-level grid: a further grid is built around it,
\* so the grid built last is the one the caller owns.
Root(gs) == Len(gs)

\* The values a caller can box: a new leaf, or the grid it owns.
Boxable(gs) == Leaves \cup {BoxGrid(g) : g \in {Root(gs)} \ {0}}

\* st at the start of a call: no hook called yet.
St(gs) == [gs |-> gs, log |-> <<>>, overflow |-> FALSE]

Others == <<canvas, nwrites, cprev, clast, rendered, upd, ufresh, ulast>>

\* Grid::with_capacity
WithCapacity(tl, br) ==
    /\ ~crashed
    /\ Len(grids) < MaxGrids
    /\ grids # <<>> => (tl.kind = "Grid") # (br.kind = "Grid")
    /\ LET g  == Len(grids) + 1
           gs == Append(grids, [elems |-> <<ElemHolder_new(tl), ElemHolder_new(br)>>,
                                focus |-> TL_IDX])
           s  == Elem_select(St(gs), g, gs[g].focus)
       IN  grids' = s.gs /\ log' = s.log
    /\ last' = Op("with_capacity", "", NoHandle, NoHandle, NoRes, "", "")
    /\ UNCHANGED <<crashed, nadded, nconn, Others>>

\* Grid::add_elem
AddElem(elem) ==
    /\ ~crashed
    /\ grids # <<>>
    /\ nadded < MaxAdded
    /\ nadded' = nadded + 1
    /\ grids' = [grids EXCEPT ![Root(grids)].elems = Append(@, ElemHolder_new(elem))]
    /\ last' = Op("add_elem", "", ElemHandle(Root(grids), NumElems(grids', Root(grids)) - 1),
                  NoHandle, NoRes, "", "")
    /\ log' = <<>>
    /\ UNCHANGED <<crashed, nconn, Others>>

ConnectUpDown(up, down) ==
    /\ ~crashed
    /\ nconn < MaxConnects
    /\ LET r == connect_up_down(grids, Root(grids), up, down)
       IN  /\ grids' = r.gs
           /\ nconn' = IF r.res = Ok THEN nconn + 1 ELSE nconn
           /\ last' = Op("connect_up_down", "", up, down, r.res, "", "")
    /\ log' = <<>>
    /\ UNCHANGED <<crashed, nadded, Others>>

ConnectLeftRight(left, right) ==
    /\ ~crashed
    /\ nconn < MaxConnects
    /\ LET r == connect_left_right(grids, Root(grids), left, right)
       IN  /\ grids' = r.gs
           /\ nconn' = IF r.res = Ok THEN nconn + 1 ELSE nconn
           /\ last' = Op("connect_left_right", "", left, right, r.res, "", "")
    /\ log' = <<>>
    /\ UNCHANGED <<crashed, nadded, Others>>

\* respond delivered to the grid the caller owns.  A respond that overflows
\* the stack never returns: the process is gone.
Respond(input) ==
    /\ ~crashed
    /\ grids # <<>>
    /\ LET r == Grid_respond(St(grids), Root(grids), input)
       IN  /\ grids' = r.st.gs
           /\ log' = r.st.log
           /\ crashed' = r.st.overflow
           /\ last' = Op("respond", input, NoHandle, NoHandle, NoRes,
                         IF r.st.overflow THEN "" ELSE r.resp.tag, r.child.tag)
    /\ UNCHANGED <<nadded, nconn, Others>>

\* The remaining hooks of the contract, called on the grid the caller owns.
Call_hook(st, g, hook) ==
    CASE hook = "select"   -> Grid_select(st, g)
      [] hook = "unselect" -> Grid_unselect(st, g)
      [] hook = "advance"  -> Grid_advance(st, g)
      [] OTHER             -> Grid_enter(st, g, hook)

Hook(hook) ==
    /\ ~crashed
    /\ grids # <<>>
    /\ grids' = Call_hook(St(grids), Root(grids), hook).gs
    /\ log' = Call_hook(St(grids), Root(grids), hook).log
    /\ last' = Op(hook, "", NoHandle, NoHandle, NoRes, "", "")
    /\ UNCHANGED <<crashed, nadded, nconn, Others>>

Hooks == {"select", "unselect", "advance",
          "enter_top", "enter_bottom", "enter_right", "enter_left"}

GridInit ==
    /\ grids = <<>>
    /\ crashed = FALSE
    /\ nadded = 0
    /\ nconn = 0
    /\ last = Op("init", "", NoHandle, NoHandle, NoRes, "", "")
    /\ log = <<>>

CanvasIdle == canvas = <<>> /\ nwrites = 0 /\ cprev = <<>> /\ clast = <<>> /\ rendered = <<>>
UpdIdle    == upd = <<>> /\ ufresh = FALSE /\ ulast = <<>>

InitGrid == GridInit /\ CanvasIdle /\ UpdIdle

\* Every operation on the grid the caller owns.
NextGrid ==
    \/ \E tl \in Boxable(grids), br \in Boxable(grids) : WithCapacity(tl, br)
    \/ \E elem \in Leaves : AddElem(elem)
    \/ \E up \in Handles(grids), down \in Handles(grids) : ConnectUpDown(up, down)
    \/ \E left \in Handles(grids), right \in Handles(grids) : ConnectLeftRight(left, right)
    \/ \E input \in Inputs : Respond(input)
    \/ \E hook \in Hooks : Hook(hook)

SpecGrid == InitGrid /\ [][NextGrid]_vars

\* A program that builds and wires its grids, delivers input to the
\* outermost one with respond and commits frames with advance; select,
\* unselect and enter_* reach a grid only through the grid that holds it.
NextFocus ==
    \/ \E tl \in Boxable(grids), br \in Boxable(grids) : WithCapacity(tl, br)
    \/ \E elem \in Leaves : AddElem(elem)
    \/ \E up \in Handles(grids), down \in Handles(grids) : ConnectUpDown(up, down)
    \/ \E left \in Handles(grids), right \in Handles(grids) : ConnectLeftRight(left, right)
    \/ \E input \in Inputs : Respond(input)
    \/ Hook("advance")

SpecFocus == InitGrid /\ [][NextFocus]_vars

(***************************************************************************)
(* Nested grids: a program that wraps its grid in further grids, wiring    *)
(* each one while it owns it, and delivers input to the outermost.         *)
(***************************************************************************)
\* The most grids nested in one another, and the most connect calls.
MaxNestGrids    == 3
MaxNestConnects == 2

\* Grid::with_capacity around the grid the caller owns.
NestWithCapacity(tl, br) ==
    /\ ~crashed
    /\ Len(grids) < MaxNestGrids
    /\ grids # <<>> => (tl.kind = "Grid") # (br.kind = "Grid")
    /\ LET g  == Len(grids) + 1
           gs == Append(grids, [elems |-> <<ElemHolder_new(tl), ElemHolder_new(br)>>,
                                focus |-> TL_IDX])
           s  == Elem_select(St(gs), g, gs[g].focus)
       IN  grids' = s.gs /\ log' = s.log
    /\ last' = Op("with_capacity", "", NoHandle, NoHandle, NoRes, "", "")
    /\ UNCHANGED <<crashed, nadded, nconn, Others>>

NestConnectUpDown(up, down) ==
    /\ ~crashed
    /\ grids # <<>>
    /\ nconn < MaxNestConnects
    /\ LET r == connect_up_down(grids, Root(grids), up, down)
       IN  /\ r.res = Ok
           /\ grids' = r.gs
           /\ last' = Op("connect_up_down", "", up, down, r.res, "", "")
    /\ nconn' = nconn + 1
    /\ log' = <<>>
    /\ UNCHANGED <<crashed, nadded, Others>>

NestConnectLeftRight(left, right) ==
    /\ ~crashed
    /\ grids # <<>>
    /\ nconn < MaxNestConnects
    /\ LET r == connect_left_right(grids, Root(grids), left, right)
       IN  /\ r.res = Ok
           /\ grids' = r.gs
           /\ last' = Op("connect_left_right", "", left, right, r.res, "", "")
    /\ nconn' = nconn + 1
    /\ log' = <<>>
    /\ UNCHANGED <<crashed, nadded, Others>>

\* The handles of the two seeds of the grid the caller owns.
SeedHandles(gs) ==
    IF gs = <<>> THEN {} ELSE {top_left(Root(gs)), bottom_right(Root(gs))}

NextNest ==
    \/ \E tl \in {Text_new} \cup (Boxable(grids) \ Leaves),
          br \in {Text_new} \cup (Boxable(grids) \ Leaves) : NestWithCapacity(tl, br)
    \/ \E up \in SeedHandles(grids), down \in SeedHandles(grids) : NestConnectUpDown(up, down)
    \/ \E left \in SeedHandles(grids), right \in SeedHandles(grids) : NestConnectLeftRight(left, right)
    \/ \E input \in {UP, DOWN, RIGHT, LEFT} : Respond(input)

SpecNest == InitGrid /\ [][NextNest]_vars

(***************************************************************************)
(* Alert graphs: a program whose widgets are Texts, Alerters and Relays,   *)
(* so that entries can name themselves and one another.                    *)
(***************************************************************************)
AlertLeaves == {Text_new, Alerter_new, Relay_new}

\* The values such a program boxes: a new leaf, or the grid it owns.
AlertBoxable(gs) == AlertLeaves \cup (Boxable(gs) \ Leaves)

NextAlert ==
    \/ \E tl \in AlertBoxable(grids), br \in AlertBoxable(grids) : WithCapacity(tl, br)
    \/ \E elem \in AlertLeaves : AddElem(elem)
    \/ \E up \in SeedHandles(grids), down \in SeedHandles(grids) : ConnectUpDown(up, down)
    \/ \E input \in {OTHERKEY, DOWN} : Respond(input)

SpecAlert == InitGrid /\ [][NextAlert]_vars

(***************************************************************************)
(* Properties of Grid                                                      *)
(***************************************************************************)
LinksOf(h) == <<h.up, h.down, h.right, h.left>>

\* The neighbor links of every entry of every grid.
Links(gs) == [g \in 1..Len(gs) |-> [i \in 1..Len(gs[g].elems) |-> LinksOf(gs[g].elems[i])]]

\* The focus index of every grid.
Focuses(gs) == [g \in 1..Len(gs) |-> gs[g].focus]

\* The link of holder h a move request follows.
Neighbor(h, tag) ==
    CASE tag = "MoveUp"    -> h.up
      [] tag = "MoveDown"  -> h.down
      [] tag = "MoveRight" -> h.right
      [] tag = "MoveLeft"  -> h.left

\* The hook of the edge opposite to the direction of a move.
OppositeEdgeHook(tag) ==
    CASE tag = "MoveUp"    -> "enter_bottom"
      [] tag = "MoveDown"  -> "enter_top"
      [] tag = "MoveRight" -> "enter_left"
      [] tag = "MoveLeft"  -> "enter_right"

EnterHooks == {"enter_top", "enter_bottom", "enter_right", "enter_left"}

IsEnterOn(c, g, i)  == c.g = g /\ c.i = i /\ c.hook \in EnterHooks
IsSelection(c)      == c.hook \in EnterHooks \cup {"select", "unselect"}
IsAlertOn(c, g)     == c.g = g /\ c.hook = "alert"

Calls(l, Test(_)) == SelectSeq(l, Test)

\* C1: the focus index of every grid is the index of one of its entries, and
\* every neighbor link of every entry is none (-1) or the index of an entry
\* of the same grid, after any sequence of Grid operations.
C1_FocusAndLinksInRange ==
    \A g \in 1..Len(grids) :
        /\ grids[g].focus \in 0..(NumElems(grids, g) - 1)
        /\ \A i \in 1..NumElems(grids, g) :
              \A k \in 1..4 : LinksOf(grids[g].elems[i])[k] \in -1..(NumElems(grids, g) - 1)

\* A respond has moved the focus of the outermost grid to an entry add_elem
\* appended, whose index is no entry of the grid nested in it.
C1_Witness ==
    /\ last.op = "respond" /\ last.resp = "Contained" /\ last.child \in MoveTags
    /\ grids[Root(grids)].focus > BR_IDX
    /\ Len(grids) > 1
    /\ NumElems(grids, 1) < NumElems(grids, Root(grids))

\* C2: when the focused child asks for a move and the focused entry has a
\* neighbor n that way, respond leaves the focus on n, fires exactly one
\* enter hook on n, the one of the opposite edge, and answers Contained.
C2_MoveEntersNeighbor ==
    [][(/\ last'.op = "respond"
        /\ last'.child \in MoveTags
        /\ Neighbor(Focus(grids, Root(grids)), last'.child) >= 0)
       => LET g == Root(grids)
              n == Neighbor(Focus(grids, g), last'.child)
              OnN(c) == IsEnterOn(c, g, n)
          IN  /\ grids'[g].focus = n
              /\ Calls(log', OnN) = <<Call(g, n, OppositeEdgeHook(last'.child))>>
              /\ last'.resp = "Contained"]_vars

\* A move down has been resolved by the outermost grid for a nested grid
\* that could not resolve it.
C2_Witness ==
    /\ last.op = "respond" /\ last.child = "MoveDown" /\ last.resp = "Contained"
    /\ Focus(grids, Root(grids)).elem.kind # "Grid"
    /\ \E c \in {log[k] : k \in 1..Len(log)} :
          c.g = Root(grids) /\ c.hook = "unselect"
             /\ Holder(grids, c.g, c.i).elem.kind = "Grid"

\* C3: when the focused child asks for a move and the focused entry has no
\* neighbor that way, respond answers the same move request, and changes no
\* focus index and no link, and calls no select, unselect or enter hook.
C3_UnresolvedMoveChangesNothing ==
    [][(/\ last'.op = "respond"
        /\ last'.child \in MoveTags
        /\ Neighbor(Focus(grids, Root(grids)), last'.child) < 0)
       => /\ last'.resp = last'.child
          /\ Focuses(grids') = Focuses(grids)
          /\ Links(grids') = Links(grids)
          /\ Calls(log', IsSelection) = <<>>]_vars

\* A move left has come back unresolved from a grid whose focused entry has
\* other neighbors.
C3_Witness ==
    /\ last.op = "respond" /\ last.child = "MoveLeft" /\ last.resp = "MoveLeft"
    /\ Focus(grids, Root(grids)).left < 0
    /\ Focus(grids, Root(grids)).up >= 0

\* Entry i of grid g is on the focus path: it is the focused entry of g, and
\* g is the outermost grid or is itself on the focus path of the grid that
\* holds it.
RECURSIVE OnFocusPath(_, _, _)
OnFocusPath(gs, g, i) ==
    /\ gs[g].focus = i
    /\ \/ g = Root(gs)
       \/ \E p \in 1..Len(gs) : \E j \in 0..(NumElems(gs, p) - 1) :
             Holder(gs, p, j).elem = BoxGrid(g) /\ OnFocusPath(gs, p, j)

\* C4: a child is in the selected state exactly when it is on the focus
\* path, at construction and after any sequence of respond calls.
C4_SelectedIffOnFocusPath ==
    \A g \in 1..Len(grids) : \A i \in 0..(NumElems(grids, g) - 1) :
        Holder(grids, g, i).elem.kind # "Grid"
            => (Holder(grids, g, i).elem.selected <=> OnFocusPath(grids, g, i))

\* The entries an alert dispatch reaches from a target list: the listed
\* handles that name an entry of the grid, and those the alert() of a reached
\* entry names.
RECURSIVE AlertClosure(_, _, _)
AlertClosure(gs, g, reached) ==
    LET valid(ts) == {ts[k] : k \in 1..Len(ts)} \cap (0..(NumElems(gs, g) - 1))
        more == UNION {valid(Elem_alert(Holder(gs, g, t).elem).targets) : t \in reached}
    IN  IF more \subseteq reached THEN reached
        ELSE AlertClosure(gs, g, reached \cup more)

Listed(gs, g, ts) == {ts[k] : k \in 1..Len(ts)} \cap (0..(NumElems(gs, g) - 1))

AlertDispatchDone ==
    LET g == Root(grids)
        OnG(c) == IsAlertOn(c, g)
        IsAlert(c) == c.hook = "alert"
        alerted == Calls(log', OnG)
    IN  /\ {alerted[k].i : k \in 1..Len(alerted)}
              = AlertClosure(grids, g, Listed(grids, g, RespondTargets))
        /\ Calls(log', IsAlert) = alerted
        /\ Calls(log', IsSelection) = <<>>
        /\ last'.resp = "Contained"
        /\ Focuses(grids') = Focuses(grids)
        /\ Links(grids') = Links(grids)

\* C5 as stated: whenever the focused child answers with an alert list, every
\* listed handle that names an entry is alerted, recursively, the others are
\* skipped, respond answers Contained, and focus and links are unchanged.
C5_AlertAlwaysHandled ==
    [][(last'.op = "respond" /\ last'.child = "Alert") => AlertDispatchDone]_vars

\* C5, amended: the same, for every dispatch that returns.
C5_AlertDispatch ==
    [][(last'.op = "respond" /\ last'.child = "Alert" /\ ~crashed')
          => AlertDispatchDone]_vars

\* An alert list with a handle that names no entry has been dispatched two
\* levels deep: the entry it reached answered with a list of its own.
C5_Witness ==
    /\ last.op = "respond" /\ last.child = "Alert" /\ last.resp = "Contained"
    /\ \E k \in 1..Len(RespondTargets) : RespondTargets[k] >= NumElems(grids, Root(grids))
    /\ \E k \in 1..Len(log) :
          log[k].hook = "alert" /\ Holder(grids, log[k].g, log[k].i).elem.kind = "Alerter"

InRange(gs, g, h) == h.idx \in 0..(NumElems(gs, g) - 1)

IsConnect(op) == op \in {"connect_up_down", "connect_left_right"}

\* C6: connect_* with a handle that names no entry answers HandleOutOfBounds
\* carrying the first such handle, and changes no link and no focus index.
C6_ConnectOutOfBounds ==
    [][(/\ IsConnect(last'.op)
        /\ ~(InRange(grids, Root(grids), last'.h1) /\ InRange(grids, Root(grids), last'.h2)))
       => /\ last'.res = HandleOutOfBounds(IF InRange(grids, Root(grids), last'.h1)
                                           THEN last'.h2 ELSE last'.h1)
          /\ Links(grids') = Links(grids)
          /\ Focuses(grids') = Focuses(grids)]_vars

\* connect_left_right has been refused for its second handle, the first
\* naming an entry.
C6_Witness ==
    /\ last.op = "connect_left_right"
    /\ last.res = HandleOutOfBounds(last.h2)
    /\ InRange(grids, Root(grids), last.h1)
    /\ ~InRange(grids, Root(grids), last.h2)

\* C7: connect_* with a handle obtained from another grid answers
\* HandleOutOfBounds.
C7_ForeignHandleRefused ==
    [][(/\ IsConnect(last'.op)
        /\ (last'.h1.origin # Root(grids) \/ last'.h2.origin # Root(grids)))
       => last'.res.tag = "Err"]_vars

(***************************************************************************)
(* src/src/util.rs: TextScroller and Updater.  util.rs is written against  *)
(* a Response that has the variant Nothing (pass-through).                 *)
(***************************************************************************)
\* TextScroller::new: the text has nlines lines.
TextScroller_new(nlines, height) ==
    [nlines |-> nlines, height |-> height, window |-> 0]

\* TextScroller::scroll_up: [inner, resp]
scroll_up(t) ==
    IF t.window > 0
    THEN [inner |-> [t EXCEPT !.window = @ - 1], resp |-> "Contained"]
    ELSE [inner |-> t, resp |-> "MoveUp"]

\* scroll_down that still scrolls when the window ends on the last line.
scroll_down_past_end(t) ==
    IF t.window + t.height <= t.nlines
    THEN [inner |-> [t EXCEPT !.window = @ + 1], resp |-> "Contained"]
    ELSE [inner |-> t, resp |-> "MoveDown"]


\* TextScroller::scroll_down: [inner, resp]
scroll_down(t) ==
    IF t.window + t.height < t.nlines
    THEN [inner |-> [t EXCEPT !.window = @ + 1], resp |-> "Contained"]
    ELSE [inner |-> t, resp |-> "MoveDown"]

\* impl Element for TextScroller: respond
TextScroller_respond(t, input) ==
    CASE input = UP    -> scroll_up(t)
      [] input = DOWN  -> scroll_down(t)
      [] input = RIGHT -> [inner |-> t, resp |-> "MoveRight"]
      [] input = LEFT  -> [inner |-> t, resp |-> "MoveLeft"]
      [] OTHER         -> [inner |-> t, resp |-> "Nothing"]

\* Updater::new
Updater_new(elem) == [inner |-> elem, updated |-> TRUE]

\* impl Element for Updater.  Each answers [u, fwd, resp]: the Updater
\* after the call, the calls forwarded to inner, the verdict.
Updater_draw(u) ==
    [u |-> u, fwd |-> IF u.updated THEN <<"draw">> ELSE <<>>, resp |-> ""]

Updater_advance(u) ==
    [u |-> [u EXCEPT !.updated = FALSE], fwd |-> <<"advance">>, resp |-> ""]

\* respond that marks the Updater whatever inner answers.
Updater_respond_marks_always(u, input) ==
    LET r == TextScroller_respond(u.inner, input)
    IN  [u |-> [inner |-> r.inner, updated |-> TRUE], fwd |-> <<"respond">>, resp |-> r.resp]

Updater_respond(u, input) ==
    LET r == TextScroller_respond(u.inner, input)
    IN  IF r.resp = "Nothing"
        THEN [u |-> [u EXCEPT !.inner = r.inner], fwd |-> <<"respond">>, resp |-> "Nothing"]
        ELSE [u |-> [inner |-> r.inner, updated |-> TRUE], fwd |-> <<"respond">>,
              resp |-> r.resp]

\* enter_top, enter_bottom, enter_right, enter_left
Updater_enter(u, hook) ==
    [u |-> [u EXCEPT !.updated = TRUE], fwd |-> <<hook>>, resp |-> ""]

Updater_alert(u) ==
    [u |-> [u EXCEPT !.updated = TRUE], fwd |-> <<"alert">>, resp |-> ""]

UCall(op, input, r) == [op |-> op, input |-> input, fwd |-> r.fwd, resp |-> r.resp]

GridIdle == GridInit

InitUpd ==
    /\ \E nlines \in 0..MaxLines, height \in 0..MaxHeight :
          upd = Updater_new(TextScroller_new(nlines, height))
    /\ ufresh = TRUE
    /\ ulast = [op |-> "new", input |-> "", fwd |-> <<>>, resp |-> ""]
    /\ GridIdle /\ CanvasIdle

UDraw ==
    /\ upd' = Updater_draw(upd).u
    /\ ulast' = UCall("draw", "", Updater_draw(upd))
    /\ UNCHANGED <<ufresh, gridVars, canvasVars>>

UAdvance ==
    /\ upd' = Updater_advance(upd).u
    /\ ulast' = UCall("advance", "", Updater_advance(upd))
    /\ ufresh' = FALSE
    /\ UNCHANGED <<gridVars, canvasVars>>

URespond(input) ==
    /\ upd' = Updater_respond(upd, input).u
    /\ ulast' = UCall("respond", input, Updater_respond(upd, input))
    /\ ufresh' = IF ulast'.resp # "Nothing" THEN TRUE ELSE ufresh
    /\ UNCHANGED <<gridVars, canvasVars>>

UEnter(hook) ==
    /\ upd' = Updater_enter(upd, hook).u
    /\ ulast' = UCall(hook, "", Updater_enter(upd, hook))
    /\ ufresh' = TRUE
    /\ UNCHANGED <<gridVars, canvasVars>>

UAlert ==
    /\ upd' = Updater_alert(upd).u
    /\ ulast' = UCall("alert", "", Updater_alert(upd))
    /\ ufresh' = TRUE
    /\ UNCHANGED <<gridVars, canvasVars>>

NextUpd ==
    \/ UDraw
    \/ UAdvance
    \/ \E input \in Inputs : URespond(input)
    \/ \E hook \in EnterHooks : UEnter(hook)
    \/ UAlert

SpecUpd == InitUpd /\ [][NextUpd]_vars

\* C8: the dirty bit is true exactly when no advance has occurred since
\* construction or the most recent marking call (a respond whose verdict is
\* not pass-through, an enter_*, an alert); draw forwards to the inner widget
\* exactly when the bit is true and never changes it; a respond whose
\* verdict is pass-through leaves it unchanged.
C8_DirtyBit ==
    /\ upd.updated = ufresh
    /\ [][/\ upd'.updated = ufresh'
          /\ ulast'.op = "draw" =>
                /\ (ulast'.fwd = <<"draw">>) = upd.updated
                /\ ulast'.fwd # <<"draw">> => ulast'.fwd = <<>>
                /\ upd' = upd
          /\ (ulast.op = "advance" /\ ulast'.op = "draw") => ulast'.fwd = <<>>
          /\ (ulast'.op = "respond" /\ ulast'.resp = "Nothing") =>
                upd'.updated = upd.updated]_vars

\* A draw right after an advance, of an Updater whose window has scrolled:
\* nothing is forwarded.
C8_Witness ==
    /\ ulast.op = "draw" /\ ulast.fwd = <<>>
    /\ upd.inner.window > 0

(***************************************************************************)
(* src/src/canvas.rs: TextStyles, Pixel, Canvas.  Pixel.flags and          *)
(* TextStyles.inner are u8.                                                *)
(***************************************************************************)
RECURSIVE BitAnd(_, _), BitOr(_, _)
\* u8 & u8
BitAnd(a, b) ==
    IF a = 0 \/ b = 0 THEN 0
    ELSE (a % 2) * (b % 2) + 2 * BitAnd(a \div 2, b \div 2)

\* u8 | u8
BitOr(a, b) ==
    IF a = 0 THEN b
    ELSE IF b = 0 THEN a
    ELSE (IF a % 2 = 1 \/ b % 2 = 1 THEN 1 ELSE 0) + 2 * BitOr(a \div 2, b \div 2)

\* u8 << n, u8 >> n
Shl(a, n) == (a * 2^n) % 256
Shr(a, n) == a \div 2^n
\* !0 as u8
NOT0 == 255

BOLD_POS      == 0
ITALICS_POS   == 1
UNDERLINE_POS == 2
INVERSE_POS   == 3

\* TextStyles::new and the builders bold, italics, underline, inverse
TextStyles_new == 0
Bit(yes) == IF yes THEN 1 ELSE 0
bold(styles, yes)      == BitOr(styles, Shl(Bit(yes), BOLD_POS))
italics(styles, yes)   == BitOr(styles, Shl(Bit(yes), ITALICS_POS))
underline(styles, yes) == BitOr(styles, Shl(Bit(yes), UNDERLINE_POS))
inverse(styles, yes)   == BitOr(styles, Shl(Bit(yes), INVERSE_POS))

\* set_styles_on that keeps the ON bits already in the pixel.
set_styles_on_keeps_old(p, styles) ==
    [p EXCEPT !.flags = BitOr(@, styles)]

\* Pixel::set_styles_on
set_styles_on(p, styles) ==
    [p EXCEPT !.flags = BitOr(BitAnd(@, Shl(NOT0, 4)), styles)]

\* Pixel::set_styles_off
set_styles_off(p, styles) ==
    [p EXCEPT !.flags = BitOr(BitAnd(@, Shr(NOT0, 4)), Shl(styles, 4))]

\* Canvas::new
Canvas_new(width, height, filler) ==
    [width |-> width, height |-> height,
     pixels |-> [i \in 1..(width * height) |-> [ch |-> filler, flags |-> 0]]]

\* Canvas::get_unchecked_mut followed by the update F of the pixel, on a
\* running call r = [canvas, ub, ...].  An index outside the buffer is
\* undefined behaviour: r.ub records it.
Poke(r, x, y, F(_)) ==
    LET i == y * r.canvas.width + x
    IN  IF i < Len(r.canvas.pixels)
        THEN [r EXCEPT !.canvas.pixels[i + 1] = F(@)]
        ELSE [r EXCEPT !.ub = TRUE]

\* Canvas::get
Canvas_get(c, x, y) ==
    IF x < c.width /\ y < c.height THEN Some(c.pixels[y * c.width + x + 1]) ELSE None

\* The body of the loop of Canvas::text whose newline arm leaves current_x
\* where the previous line ended.
text_step_keeps_column(r, letter, x, styles) ==
    IF letter = "\n"
    THEN LET a  == Poke(r, r.last_x, r.last_y, LAMBDA p : set_styles_off(p, styles))
             b  == [a EXCEPT !.current_y = @ + 1]
             ib == b.current_x < b.canvas.width /\ b.current_y < b.canvas.height
             c  == [b EXCEPT !.in_bounds = ib]
         IN  IF ib
             THEN [Poke(c, c.current_x, c.current_y,
                        LAMBDA p : set_styles_on(p, styles))
                     EXCEPT !.last_x = c.current_x, !.last_y = c.current_y]
             ELSE c
    ELSE IF r.in_bounds
         THEN LET a == Poke(r, r.current_x, r.current_y, LAMBDA p : [p EXCEPT !.ch = letter])
              IN  [a EXCEPT !.last_x = r.current_x, !.last_y = r.current_y,
                            !.current_x = r.current_x + 1,
                            !.in_bounds = a.canvas.width > r.current_x + 1]
         ELSE r

\* The body of the loop of Canvas::text whose letter arm does not look for
\* the right edge.
text_step_ignores_edge(r, letter, x, styles) ==
    IF letter = "\n"
    THEN LET a  == Poke(r, r.last_x, r.last_y, LAMBDA p : set_styles_off(p, styles))
             b  == [a EXCEPT !.current_x = x, !.current_y = @ + 1]
             ib == b.current_x < b.canvas.width /\ b.current_y < b.canvas.height
             c  == [b EXCEPT !.in_bounds = ib]
         IN  IF ib
             THEN [Poke(c, c.current_x, c.current_y,
                        LAMBDA p : set_styles_on(p, styles))
                     EXCEPT !.last_x = c.current_x, !.last_y = c.current_y]
             ELSE c
    ELSE IF r.in_bounds
         THEN LET a == Poke(r, r.current_x, r.current_y, LAMBDA p : [p EXCEPT !.ch = letter])
              IN  [a EXCEPT !.last_x = r.current_x, !.last_y = r.current_y,
                            !.current_x = r.current_x + 1]
         ELSE r

\* The body of the loop of Canvas::text: one letter of the text.
text_step(r, letter, x, styles) ==
    IF letter = "\n"
    THEN LET a  == Poke(r, r.last_x, r.last_y, LAMBDA p : set_styles_off(p, styles))
             b  == [a EXCEPT !.current_x = x, !.current_y = @ + 1]
             ib == b.current_x < b.canvas.width /\ b.current_y < b.canvas.height
             c  == [b EXCEPT !.in_bounds = ib]
         IN  IF ib
             THEN [Poke(c, c.current_x, c.current_y,
                        LAMBDA p : set_styles_on(p, styles))
                     EXCEPT !.last_x = c.current_x, !.last_y = c.current_y]
             ELSE c
    ELSE IF r.in_bounds
         THEN LET a == Poke(r, r.current_x, r.current_y, LAMBDA p : [p EXCEPT !.ch = letter])
              IN  [a EXCEPT !.last_x = r.current_x, !.last_y = r.current_y,
                            !.current_x = r.current_x + 1,
                            !.in_bounds = a.canvas.width > r.current_x + 1]
         ELSE r

RECURSIVE text_loop(_, _, _, _, _)
\* for letter in text.chars(): the letters from position i on
text_loop(r, text, i, x, styles) ==
    IF i > Len(text) THEN r
    ELSE text_loop(text_step(r, text[i], x, styles), text, i + 1, x, styles)

\* Canvas::text whose bounds test lets the column just past the right edge in.
Canvas_text_start_off_by_one(c, text, x, y, styles) ==
    IF x > c.width \/ y >= c.height
    THEN [canvas |-> c, ub |-> FALSE]
    ELSE LET r0 == [canvas |-> c, ub |-> FALSE, current_x |-> x, current_y |-> y,
                    in_bounds |-> TRUE, last_x |-> x, last_y |-> y]
             r1 == Poke(r0, x, y, LAMBDA p : set_styles_on(p, styles))
             r2 == text_loop(r1, text, 1, x, styles)
             r3 == Poke(r2, r2.last_x, r2.last_y, LAMBDA p : set_styles_off(p, styles))
         IN  [canvas |-> r3.canvas, ub |-> r3.ub]

\* Canvas::text: [canvas, ub]
Canvas_text(c, text, x, y, styles) ==
    IF x >= c.width \/ y >= c.height
    THEN [canvas |-> c, ub |-> FALSE]
    ELSE LET r0 == [canvas |-> c, ub |-> FALSE, current_x |-> x, current_y |-> y,
                    in_bounds |-> TRUE, last_x |-> x, last_y |-> y]
             r1 == Poke(r0, x, y, LAMBDA p : set_styles_on(p, styles))
             r2 == text_loop(r1, text, 1, x, styles)
             r3 == Poke(r2, r2.last_x, r2.last_y, LAMBDA p : set_styles_off(p, styles))
         IN  [canvas |-> r3.canvas, ub |-> r3.ub]

\* Canvas::line whose run is not clipped to the width of the canvas.
Canvas_line_unclipped(c, fill, x, y, len, styles) ==
    IF x >= c.width \/ y >= c.height \/ len = 0
    THEN [canvas |-> c, ub |-> FALSE]
    ELSE LET n    == len
             from == y * c.width + x
             to   == from + n
             r0 == [canvas |-> [c EXCEPT !.pixels =
                                   [i \in 1..Len(c.pixels) |->
                                      IF from < i /\ i <= to
                                      THEN [c.pixels[i] EXCEPT !.ch = fill]
                                      ELSE c.pixels[i]]],
                    ub |-> to > Len(c.pixels)]
             r1 == Poke(r0, x, y, LAMBDA p : set_styles_on(p, styles))
         IN  Poke(r1, x + n - 1, y, LAMBDA p : set_styles_off(p, styles))

\* Canvas::line: [canvas, ub]
Canvas_line(c, fill, x, y, len, styles) ==
    IF x >= c.width \/ y >= c.height \/ len = 0
    THEN [canvas |-> c, ub |-> FALSE]
    ELSE LET n    == IF x + len >= c.width THEN c.width - x ELSE len
             from == y * c.width + x
             to   == from + n
             r0 == [canvas |-> [c EXCEPT !.pixels =
                                   [i \in 1..Len(c.pixels) |->
                                      IF from < i /\ i <= to
                                      THEN [c.pixels[i] EXCEPT !.ch = fill]
                                      ELSE c.pixels[i]]],
                    ub |-> to > Len(c.pixels)]
             r1 == Poke(r0, x, y, LAMBDA p : set_styles_on(p, styles))
         IN  Poke(r1, x + n - 1, y, LAMBDA p : set_styles_off(p, styles))

BOLD_ON       == Shl(1, BOLD_POS)
ITALICS_ON    == Shl(1, ITALICS_POS)
UNDERLINE_ON  == Shl(1, UNDERLINE_POS)
INVERSE_ON    == Shl(1, INVERSE_POS)
BOLD_OFF      == Shl(1, BOLD_POS + 4)
ITALICS_OFF   == Shl(1, ITALICS_POS + 4)
UNDERLINE_OFF == Shl(1, UNDERLINE_POS + 4)
INVERSE_OFF   == Shl(1, INVERSE_POS + 4)

\* write!(f, code) when the bit of mask is set in flags
WriteIf(flags, mask, code) == IF BitAnd(flags, mask) # 0 THEN <<code>> ELSE <<>>

\* impl Display for Pixel: the strings written, in order.
Pixel_fmt(p) ==
    IF p.flags = 0 THEN <<p.ch>>
    ELSE    WriteIf(p.flags, BOLD_ON, "ESC[1m")
         \o WriteIf(p.flags, ITALICS_ON, "ESC[3m")
         \o WriteIf(p.flags, UNDERLINE_ON, "ESC[4m")
         \o WriteIf(p.flags, INVERSE_ON, "ESC[7m")
         \o <<p.ch>>
         \o WriteIf(p.flags, BOLD_OFF, "ESC[22m")
         \o WriteIf(p.flags, ITALICS_OFF, "ESC[23m")
         \o WriteIf(p.flags, UNDERLINE_OFF, "ESC[24m")
         \o WriteIf(p.flags, INVERSE_OFF, "ESC[27m")

\* slice.chunks(n), n > 0: the last chunk holds what is left.
Chunks(s, n) ==
    [k \in 1..((Len(s) + n - 1) \div n) |->
        SubSeq(s, (k - 1) * n + 1, IF k * n < Len(s) THEN k * n ELSE Len(s))]

RECURSIVE fmt_pixels(_, _), fmt_chunks(_, _)
\* for p in ps { write!(f, "{}", p) }: the pixels from position i on
fmt_pixels(ps, i) ==
    IF i > Len(ps) THEN <<>> ELSE Pixel_fmt(ps[i]) \o fmt_pixels(ps, i + 1)

\* for ps in chunks { ...; write!(f, "\x1B[0m\n") }: the chunks from k on
fmt_chunks(chunks, k) ==
    IF k > Len(chunks) THEN <<>>
    ELSE fmt_pixels(chunks[k], 1) \o <<"ESC[0m", "\n">> \o fmt_chunks(chunks, k + 1)

\* impl Display for Canvas: [out, panicked].  slice::chunks panics when the
\* chunk size is 0.
Canvas_fmt(c) ==
    IF c.width = 0 THEN [out |-> <<>>, panicked |-> TRUE]
    ELSE [out |-> fmt_chunks(Chunks(c.pixels, c.width), 1), panicked |-> FALSE]


\* The inputs of the write calls.
Letters == {"a", "b"}
Chars   == Letters \cup {"\n"}
Texts   == UNION {[1..n -> Chars] : n \in 0..MaxTextLen}
Styles  == {TextStyles_new, underline(TextStyles_new, TRUE),
            inverse(bold(TextStyles_new, TRUE), TRUE)}
Filler  == "#"
Fill    == "-"

CCall(op, text, x, y, len, styles, ub) ==
    [op |-> op, text |-> text, x |-> x, y |-> y, len |-> len, styles |-> styles, ub |-> ub]

InitCanvas ==
    /\ \E width \in 0..MaxCanvasWidth, height \in 0..MaxCanvasHeight :
          canvas = Canvas_new(width, height, Filler)
    /\ nwrites = 0
    /\ cprev = canvas
    /\ clast = CCall("new", <<>>, 0, 0, 0, TextStyles_new, FALSE)
    /\ rendered = <<>>
    /\ GridIdle /\ UpdIdle

CText(text, x, y, styles) ==
    /\ nwrites < MaxWrites
    /\ nwrites' = nwrites + 1
    /\ LET r == Canvas_text(canvas, text, x, y, styles)
       IN  /\ canvas' = r.canvas
           /\ clast' = CCall("text", text, x, y, 0, styles, r.ub)
    /\ cprev' = canvas
    /\ UNCHANGED <<rendered, gridVars, updVars>>

CLine(x, y, len, styles) ==
    /\ nwrites < MaxWrites
    /\ nwrites' = nwrites + 1
    /\ LET r == Canvas_line(canvas, Fill, x, y, len, styles)
       IN  /\ canvas' = r.canvas
           /\ clast' = CCall("line", <<>>, x, y, len, styles, r.ub)
    /\ cprev' = canvas
    /\ UNCHANGED <<rendered, gridVars, updVars>>

NextCanvas ==
    \/ \E text \in Texts, x \in 0..MaxCanvasWidth, y \in 0..MaxCanvasHeight, styles \in Styles :
          CText(text, x, y, styles)
    \/ \E x \in 0..MaxCanvasWidth, y \in 0..MaxCanvasHeight, len \in 0..(MaxCanvasWidth + 1),
          styles \in Styles :
          CLine(x, y, len, styles)

SpecCanvas == InitCanvas /\ [][NextCanvas]_vars

\* A program that builds a canvas of any size, draws lines on it and prints
\* it.
RenderStyles == {TextStyles_new,
                 underline(bold(TextStyles_new, TRUE), TRUE),
                 inverse(underline(italics(bold(TextStyles_new, TRUE), TRUE), TRUE), TRUE)}

\* print!("{}", canvas)
Render ==
    /\ rendered' = Canvas_fmt(canvas)
    /\ clast' = CCall("render", <<>>, 0, 0, 0, TextStyles_new, FALSE)
    /\ cprev' = canvas
    /\ UNCHANGED <<canvas, nwrites, gridVars, updVars>>

NextRender ==
    \/ \E x \in 0..MaxCanvasWidth, y \in 0..MaxCanvasHeight, len \in 0..(MaxCanvasWidth + 1),
          styles \in RenderStyles :
          CLine(x, y, len, styles)
    \/ Render

SpecRender == InitCanvas /\ [][NextRender]_vars

\* The first write to a new canvas, a text of up to MaxLongTextLen chars.
LongTexts == UNION {[1..n -> Chars] : n \in 0..MaxLongTextLen}

CTextFirst(text, x, y, styles) ==
    /\ nwrites = 0
    /\ nwrites' = 1
    /\ LET r == Canvas_text(canvas, text, x, y, styles)
       IN  /\ canvas' = r.canvas
           /\ clast' = CCall("text", text, x, y, 0, styles, r.ub)
    /\ cprev' = canvas
    /\ UNCHANGED <<rendered, gridVars, updVars>>

NextText ==
    \E text \in LongTexts, x \in 0..MaxCanvasWidth, y \in 0..MaxCanvasHeight, styles \in Styles :
        CTextFirst(text, x, y, styles)

SpecText == InitCanvas /\ [][NextText]_vars

(***************************************************************************)
(* src/src/util.rs: TextScroller::draw and padded_line, on a Canvas.       *)
(* util.rs reads the size of the canvas through width() and height().      *)
(***************************************************************************)
\* The longest line of a scroller's text, and the widest scroller.
MaxLineLen     == 2
MaxScrollWidth == 2
\* The most draws of a scroller on one canvas.
MaxDraws       == 1

\* TextScroller::new with the lines of its text and its width kept.
TextScroller_new_lines(lines, width, height) ==
    [nlines |-> Len(lines), lines |-> lines, width |-> width,
     height |-> height, window |-> 0]

RECURSIVE put_letters(_, _, _, _, _)
\* for letter in text.chars().take(length): the letters i..n of text go to
\* the columns from x on, through get_unchecked_mut.
put_letters(r, text, i, n, x) ==
    IF i > n THEN r
    ELSE put_letters(Poke(r, x, r.y, LAMBDA p : [p EXCEPT !.ch = text[i]]),
                     text, i + 1, n, x + 1)

\* The buffer indices Canvas::line reaches: none when it returns early.
line_touches(c, x, y, len) ==
    IF x >= c.width \/ y >= c.height \/ len = 0 THEN {}
    ELSE LET n == IF x + len >= c.width THEN c.width - x ELSE len
         IN  (y * c.width + x)..(y * c.width + x + n - 1)

\* The end of padded_line, on the running call r after the OFF bits are set:
\* canvas.line(pad, current_x, y, space_left, styles).
pad_rest(r, first, pad, current_x, y, space_left, styles) ==
    LET l == Canvas_line(r.canvas, pad, current_x, y, space_left, styles)
    IN  [canvas |-> l.canvas, ub |-> r.ub \/ l.ub,
         touched |-> (first..(y * r.canvas.width + current_x))
                        \cup line_touches(r.canvas, current_x, y, space_left)]

\* padded_line: [canvas, ub, touched], touched the buffer indices (from 0)
\* the call reads or writes.
padded_line(c, text, x, y, length, pad, styles) ==
    IF x >= c.width \/ y >= c.height
    THEN [canvas |-> c, ub |-> FALSE, touched |-> {}]
    ELSE LET len == IF x + length > c.width THEN c.width - x ELSE length
             n   == IF Len(text) < len THEN Len(text) ELSE len
             r1  == Poke([canvas |-> c, ub |-> FALSE, y |-> y], x, y,
                         LAMBDA p : set_styles_on(p, styles))
             r3  == Poke(put_letters(r1, text, 1, n, x), x + n, y,
                         LAMBDA p : set_styles_off(p, styles))
         IN  pad_rest(r3, y * c.width + x, pad, x + n, y, len - n, styles)

Pad == " "

\* One call draw makes on the canvas, r its outcome.
DrawCall(op, text, x, y, length, before, r) ==
    [op |-> op, text |-> text, x |-> x, y |-> y, length |-> length,
     before |-> before, after |-> r.canvas, ub |-> r.ub, touched |-> r.touched]

\* The running draw d = [canvas, ub, calls, t, padded] after a call with
\* outcome r.
drawn(d, op, l, x, y, r) ==
    [d EXCEPT !.canvas = r.canvas, !.ub = @ \/ r.ub,
              !.calls = Append(@, DrawCall(op, l, x, y, d.t.width, d.canvas, r))]

RECURSIVE draw_lines(_, _, _, _, _)
\* for (i, l) in lines.iter().enumerate(): the lines from i on (from 0), by
\* Canvas::text when d.padded is false, by padded_line when it is true.
draw_lines(d, lines, i, x, y) ==
    IF i >= Len(lines) THEN d
    ELSE draw_lines(
            IF d.padded
            THEN drawn(d, "padded_line", lines[i + 1], x, y + i,
                       padded_line(d.canvas, lines[i + 1], x, y + i, d.t.width, Pad,
                                   TextStyles_new))
            ELSE drawn(d, "text", lines[i + 1], x, y + i,
                       Canvas_text(d.canvas, lines[i + 1], x, y + i, TextStyles_new)
                          @@ [touched |-> {}]),
            lines, i + 1, x, y)

\* The slice lines[window .. window + height] draw takes when the text has
\* at least height lines; taking it panics when it ends past the list.
SliceOf(t) ==
    IF Len(t.lines) < t.height THEN <<0, 0>> ELSE <<t.window, t.window + t.height>>
SlicePanics(t) ==
    ~(Len(t.lines) < t.height) /\ t.window + t.height > Len(t.lines)

\* The lines draw goes through.
LinesToDraw(t) ==
    IF Len(t.lines) < t.height THEN t.lines
    ELSE IF SlicePanics(t) THEN <<>>
    ELSE SubSeq(t.lines, t.window + 1, t.window + t.height)

\* impl Element for TextScroller: draw.  [canvas, ub, calls, t, padded].
TextScroller_draw(t, c, x, y) ==
    draw_lines([canvas |-> c, ub |-> FALSE, calls |-> <<>>, t |-> t,
                padded |-> ~(Len(t.lines) < t.height)],
               LinesToDraw(t), 0, x, y)

\* Updater::draw around it: the scroller draws when the Updater is marked.
Updater_draw_on(u, c, x, y) ==
    IF u.updated THEN TextScroller_draw(u.inner, c, x, y)
    ELSE [canvas |-> c, ub |-> FALSE, calls |-> <<>>, t |-> u.inner, padded |-> FALSE]

\* The texts a scroller is built from: up to MaxLines lines of up to
\* MaxLineLen letters, the lines of one text equally long.
ScrollLine  == UNION {[1..n -> {"a"}] : n \in 0..MaxLineLen}
ScrollTexts == UNION {[1..n -> {l}] : n \in 0..MaxLines, l \in ScrollLine}

InitScroll ==
    /\ \E width \in 0..MaxCanvasWidth, height \in 0..MaxCanvasHeight :
          canvas = Canvas_new(width, height, Filler)
    /\ \E lines \in ScrollTexts, width \in 0..MaxScrollWidth, height \in 0..MaxHeight :
          upd = Updater_new(TextScroller_new_lines(lines, width, height))
    /\ ufresh = TRUE
    /\ ulast = [op |-> "new", input |-> "", fwd |-> <<>>, resp |-> ""]
    /\ nwrites = 0
    /\ cprev = canvas
    /\ clast = CCall("new", <<>>, 0, 0, 0, TextStyles_new, FALSE)
    /\ rendered = <<>>
    /\ GridIdle

\* What a draw with outcome d leaves behind.
Drawn(d, x, y) ==
    /\ canvas' = d.canvas
    /\ clast' = [op |-> "draw", x |-> x, y |-> y, ub |-> d.ub, calls |-> d.calls,
                 panicked |-> SlicePanics(upd.inner), slice |-> SliceOf(upd.inner),
                 nlines |-> upd.inner.nlines]

\* draw of the Updater at (x, y) of the canvas.
ScrollDraw(x, y) ==
    /\ nwrites < MaxDraws
    /\ nwrites' = nwrites + 1
    /\ Drawn(Updater_draw_on(upd, canvas, x, y), x, y)
    /\ cprev' = canvas
    /\ ulast' = UCall("draw", "", Updater_draw(upd))
    /\ UNCHANGED <<upd, ufresh, rendered, gridVars>>

NextScroll ==
    \/ \E input \in Inputs : URespond(input)
    \/ \E x \in 0..MaxCanvasWidth, y \in 0..MaxCanvasHeight : ScrollDraw(x, y)

SpecScroll == InitScroll /\ [][NextScroll]_vars


(***************************************************************************)
(* What a write call is expected to do, read off its arguments: the lines  *)
(* of the text, the cell of each character, the first and last cell of     *)
(* each line.                                                              *)
(***************************************************************************)
Min(a, b) == IF a < b THEN a ELSE b
Max(a, b) == IF a > b THEN a ELSE b
SetMin(S) == CHOOSE m \in S : \A n \in S : m <= n
SetMax(S) == CHOOSE m \in S : \A n \in S : m >= n

Cells(c) == (0..(c.width - 1)) \X (0..(c.height - 1))
PixelAt(c, cell) == c.pixels[cell[2] * c.width + cell[1] + 1]
OnHalf(p)  == p.flags % 16
OffHalf(p) == p.flags \div 16
\* Every bit of styles is in half; new has a bit that old has not.
Has(half, styles) == BitAnd(half, styles) = styles
Gains(old, new)   == BitAnd(new, old) # new

\* The positions of the characters of the text, the line and the column
\* of position i within the text.
CharIdx(text)    == {i \in 1..Len(text) : text[i] # "\n"}
LineOf(text, i)  == Cardinality({j \in 1..(i - 1) : text[j] = "\n"})
ColOf(text, i)   == i - 1 - SetMax({0} \cup {j \in 1..(i - 1) : text[j] = "\n"})
NumLines(text)   == 1 + Cardinality({j \in 1..Len(text) : text[j] = "\n"})
LineLen(text, k) == Cardinality({i \in CharIdx(text) : LineOf(text, i) = k})
CellOf(text, i, x, y) == <<x + ColOf(text, i), y + LineOf(text, i)>>

\* Every character of the text falls inside the canvas.
Inside(c, text, x, y) ==
    \A i \in CharIdx(text) : CellOf(text, i, x, y) \in Cells(c)

\* The first and the last cell written by the whole call.
FirstCells(text, x, y) ==
    IF CharIdx(text) = {} THEN {} ELSE {CellOf(text, SetMin(CharIdx(text)), x, y)}
LastCells(text, x, y) ==
    IF CharIdx(text) = {} THEN {} ELSE {CellOf(text, SetMax(CharIdx(text)), x, y)}

\* The lines of the text whose first cell is inside the canvas; the first
\* cell of each, and the last cell each writes (its first cell when it
\* has no character), the line clipped to the width of the canvas.
LinesIn(c, text, x, y) ==
    IF x < c.width THEN {k \in 0..(NumLines(text) - 1) : y + k < c.height} ELSE {}
LineStarts(c, text, x, y) == {<<x, y + k>> : k \in LinesIn(c, text, x, y)}
LineEnds(c, text, x, y) ==
    {<<x + Max(Min(LineLen(text, k), c.width - x), 1) - 1, y + k>> : k \in LinesIn(c, text, x, y)}

\* The first and last cell of the run of a line call.
RunStarts(c, x, y, len) ==
    IF x < c.width /\ y < c.height /\ len > 0 THEN {<<x, y>>} ELSE {}
RunEnds(c, x, y, len) ==
    IF x < c.width /\ y < c.height /\ len > 0
    THEN {<<x + Min(len, c.width - x) - 1, y>>} ELSE {}

\* The cells where the most recent write call puts its ON and its OFF bits.
Starts == IF clast.op = "text" THEN LineStarts(cprev, clast.text, clast.x, clast.y)
          ELSE RunStarts(cprev, clast.x, clast.y, clast.len)
Ends   == IF clast.op = "text" THEN LineEnds(cprev, clast.text, clast.x, clast.y)
          ELSE RunEnds(cprev, clast.x, clast.y, clast.len)
IsWrite == clast.op \in {"text", "line"}
CharsPlaced ==
    \A i \in CharIdx(clast.text) :
        PixelAt(canvas, CellOf(clast.text, i, clast.x, clast.y)).ch = clast.text[i]

\* The ON bits of the style are on the cells of S and no other cell gains
\* an ON bit; likewise the OFF bits and the cells of E.
BitsOnlyAt(S, E) ==
    \A cell \in Cells(canvas) :
        /\ cell \in S => Has(OnHalf(PixelAt(canvas, cell)), clast.styles)
        /\ cell \notin S => ~Gains(OnHalf(PixelAt(cprev, cell)), OnHalf(PixelAt(canvas, cell)))
        /\ cell \in E => Has(OffHalf(PixelAt(canvas, cell)), clast.styles)
        /\ cell \notin E => ~Gains(OffHalf(PixelAt(cprev, cell)), OffHalf(PixelAt(canvas, cell)))

Placed(cell) ==
    (IF cell \in Starts THEN clast.styles ELSE 0) + (IF cell \in Ends THEN Shl(clast.styles, 4) ELSE 0)

StartsOutside == clast.x >= cprev.width \/ clast.y >= cprev.height

\* C11: a text call, and a line call, whose start position is outside the
\* canvas (x >= width or y >= height) leaves the character and the style
\* field of every cell as they were, whatever the text and the style.
C11_OutsideStartChangesNothing ==
    (IsWrite /\ StartsOutside) => canvas = cprev

\* A styled text with a character has been written at the column just past
\* the right edge, on a row of a canvas an earlier call has written to.
C11_Witness ==
    /\ clast.op = "text" /\ clast.x = cprev.width /\ clast.y < cprev.height
    /\ CharIdx(clast.text) # {} /\ clast.styles # TextStyles_new
    /\ nwrites = 2
    /\ cprev # Canvas_new(cprev.width, cprev.height, Filler)

\* The character a text call leaves in a cell: that of the position of the
\* text whose cell it is, the one before the call when there is none.
\* Positions whose column is past the right edge or whose row is past the
\* bottom edge have no cell.
ExpectedCh(cell) ==
    LET at == {i \in CharIdx(clast.text) : CellOf(clast.text, i, clast.x, clast.y) = cell}
    IN  IF at = {} THEN PixelAt(cprev, cell).ch ELSE clast.text[CHOOSE i \in at : TRUE]

\* C12: a text call that starts inside the canvas stores the characters whose
\* column is before the right edge and whose row is before the bottom edge,
\* each at column x + position in its line of row y + line number, drops the
\* others, and touches no index outside the buffer.
C12_ClippedAtEdges ==
    (clast.op = "text" /\ ~StartsOutside) =>
        /\ \A cell \in Cells(canvas) : PixelAt(canvas, cell).ch = ExpectedCh(cell)
        /\ ~clast.ub

\* A text has lost a character at the right edge and stored a later one,
\* after a newline, at column x of the next row.
C12_Witness ==
    /\ clast.op = "text" /\ ~StartsOutside
    /\ \E i, j \in CharIdx(clast.text) :
          /\ i < j
          /\ CellOf(clast.text, i, clast.x, clast.y)[1] >= canvas.width
          /\ CellOf(clast.text, j, clast.x, clast.y) = <<clast.x, clast.y + 1>>
          /\ clast.y + 1 < canvas.height
          /\ PixelAt(canvas, <<clast.x, clast.y + 1>>).ch = clast.text[j]

(***************************************************************************)
(* Grid: verdicts passed through, the default respond                      *)
(***************************************************************************)
\* The hook calls a step makes on the entries of grid g, respond aside.
HooksOf(l, g) ==
    LET OnG(c) == c.g = g /\ c.hook # "respond"
    IN  Calls(l, OnG)

DefaultVerdict(input) ==
    CASE input = UP    -> "MoveUp"
      [] input = DOWN  -> "MoveDown"
      [] input = RIGHT -> "MoveRight"
      [] input = LEFT  -> "MoveLeft"
      [] OTHER         -> "Nothing"

\* C14: the default respond, here that of a Text that has the focus, answers
\* the move request of a directional symbol and pass-through (Nothing) for
\* every other symbol, and changes no widget: when the grid does not move
\* its focus for the verdict, no grid and no entry has changed.
C14_DefaultRespond ==
    [][(/\ last'.op = "respond"
        /\ Focus(grids, Root(grids)).elem.kind = "Text")
       => /\ last'.child = DefaultVerdict(last'.input)
          /\ (last'.input \notin {UP, DOWN, RIGHT, LEFT} \/ last'.resp \in MoveTags)
                => grids' = grids]_vars

(***************************************************************************)
(* Canvas: what a rendering is expected to write                           *)
(***************************************************************************)
RECURSIVE Flatten(_)
Flatten(ss) == IF ss = <<>> THEN <<>> ELSE Head(ss) \o Flatten(Tail(ss))

\* The codes of the styles of a half of a style field, in the order bold,
\* italics, underline, inverse.
CodesFor(half, codes) ==
    Flatten([k \in 1..4 |-> IF (half \div 2^(k - 1)) % 2 = 1 THEN <<codes[k]>> ELSE <<>>])

CellOut(p) ==
    IF p.flags = 0 THEN <<p.ch>>
    ELSE    CodesFor(OnHalf(p), <<"ESC[1m", "ESC[3m", "ESC[4m", "ESC[7m">>)
         \o <<p.ch>>
         \o CodesFor(OffHalf(p), <<"ESC[22m", "ESC[23m", "ESC[24m", "ESC[27m">>)

RowOut(c, y) ==
    Flatten([x \in 1..c.width |-> CellOut(PixelAt(c, <<x - 1, y>>))]) \o <<"ESC[0m", "\n">>

ExpectedOut(c) == Flatten([y \in 1..c.height |-> RowOut(c, y - 1)])

\* C15: rendering a canvas writes height rows in row order, each the width
\* cells of the row from left to right, a cell with a nonzero style field as
\* its ON codes, its character and its OFF codes (each in the order bold,
\* italics, underline, inverse), a cell with a zero field as its character
\* alone, and each row closed by the reset code and a line break; the
\* canvas is as it was.
C15_RenderRows ==
    clast.op = "render" =>
        /\ ~rendered.panicked
        /\ rendered.out = ExpectedOut(canvas)
        /\ canvas = cprev

(***************************************************************************)
(* Canvas: line                                                            *)
(***************************************************************************)
\* The cells of the run of a line call, clipped to the width of the canvas.
RunCells(c, x, y, len) ==
    {cell \in Cells(c) : cell[2] = y /\ x <= cell[1] /\ cell[1] <= x + Min(len, c.width - x) - 1}

\* C16: a line call that starts inside the canvas with len > 0 sets the
\* character of exactly the cells (x .. x + min(len, width - x) - 1, y) to
\* fill, puts the ON bits of the style on the first and the OFF bits on the
\* last cell of that run, and changes no cell outside the run; with len = 0
\* it changes nothing.
C16_LineRun ==
    (clast.op = "line" /\ ~StartsOutside) =>
        IF clast.len = 0 THEN canvas = cprev
        ELSE LET run   == RunCells(cprev, clast.x, clast.y, clast.len)
                 first == <<clast.x, clast.y>>
                 end   == <<clast.x + Min(clast.len, cprev.width - clast.x) - 1, clast.y>>
             IN  /\ first \in run /\ end \in run
                 /\ \A cell \in run : PixelAt(canvas, cell).ch = Fill
                 /\ \A cell \in Cells(canvas) \ run : PixelAt(canvas, cell) = PixelAt(cprev, cell)
                 /\ Has(OnHalf(PixelAt(canvas, first)), clast.styles)
                 /\ Has(OffHalf(PixelAt(canvas, end)), clast.styles)
                 /\ \A cell \in run \ {first} :
                       OnHalf(PixelAt(canvas, cell)) = OnHalf(PixelAt(cprev, cell))
                 /\ \A cell \in run \ {end} :
                       OffHalf(PixelAt(canvas, cell)) = OffHalf(PixelAt(cprev, cell))
                 /\ ~clast.ub

\* A styled line longer than what is left of its row has been drawn on a
\* row that has a row below it.
C16_Witness ==
    /\ clast.op = "line" /\ ~StartsOutside
    /\ clast.styles # TextStyles_new
    /\ clast.len > cprev.width - clast.x
    /\ clast.y + 1 < cprev.height
    /\ PixelAt(canvas, <<cprev.width - 1, clast.y>>).ch = Fill

(***************************************************************************)
(* Nested grids: where a move request is resolved                          *)
(***************************************************************************)
RECURSIVE FocusChain(_, _)
\* The grids from g down its focused entries, outermost first: the last one
\* holds the focused leaf.
FocusChain(gs, g) ==
    <<g>> \o (IF Focus(gs, g).elem.kind = "Grid"
              THEN FocusChain(gs, Focus(gs, g).elem.gid) ELSE <<>>)

\* The positions on the chain whose focused entry has a neighbor that way.
Resolvers(gs, ch, tag) ==
    {p \in 1..Len(ch) : Neighbor(Focus(gs, ch[p]), tag) >= 0}

\* The entry an enter hook of a grid gives the focus to.
EdgeIdx(hook) ==
    IF hook \in {"enter_top", "enter_left"} THEN TL_IDX ELSE BR_IDX

\* A directional key has been delivered to a grid that holds a grid on its
\* focus path.
NestedMove ==
    /\ last'.op = "respond"
    /\ last'.input \in {UP, DOWN, RIGHT, LEFT}
    /\ Len(FocusChain(grids, Root(grids))) > 1

\* What holds of every resolved nested move, whoever the neighbor is: the
\* containers nearer to the leaf than the resolver (position k) answer the
\* move unresolved, the resolver puts its focus on its neighbor n and the
\* outermost respond answers Contained, the containers around the resolver
\* keep their focus.
Resolved(ch, k, tag) ==
    /\ last'.resp = "Contained"
    /\ grids'[ch[k]].focus = Neighbor(Focus(grids, ch[k]), tag)
    /\ \A p \in 1..(k - 1) : grids'[ch[p]].focus = grids[ch[p]].focus
    /\ \A p \in (k + 1)..Len(ch) :
          Grid_respond(St(grids), ch[p], last'.input).resp.tag = tag

\* C17 as stated: the move request of the focused leaf is resolved by the
\* nearest container on the chain whose focused entry has a neighbor that way;
\* every container nearer to the leaf answers the move unresolved and keeps
\* its focus index, the resolver moves its focus and the respond answers
\* Contained; with no such container the respond answers the move request and
\* no focus index changes.
C17_NearestResolves ==
    [][NestedMove =>
         LET tag == Element_respond(last'.input).tag
             ch  == FocusChain(grids, Root(grids))
             R   == Resolvers(grids, ch, tag)
         IN  IF R = {}
             THEN last'.resp = tag /\ Focuses(grids') = Focuses(grids)
             ELSE /\ Resolved(ch, SetMax(R), tag)
                  /\ \A p \in (SetMax(R) + 1)..Len(ch) :
                        grids'[ch[p]].focus = grids[ch[p]].focus]_vars

\* C17, amended: as above, but the nearer containers keep their focus index
\* only when the resolver's neighbor is another entry than its focused one;
\* when the focused entry is its own neighbor the grid it holds is entered
\* again and ends with its focus on the entry of the edge it was entered by.
C17_NearestResolvesOrReenters ==
    [][NestedMove =>
         LET tag == Element_respond(last'.input).tag
             ch  == FocusChain(grids, Root(grids))
             R   == Resolvers(grids, ch, tag)
         IN  IF R = {}
             THEN last'.resp = tag /\ Focuses(grids') = Focuses(grids)
             ELSE LET k == SetMax(R)
                  IN  /\ Resolved(ch, k, tag)
                      /\ IF Neighbor(Focus(grids, ch[k]), tag) # grids[ch[k]].focus
                         THEN \A p \in (k + 1)..Len(ch) :
                                 grids'[ch[p]].focus = grids[ch[p]].focus
                         ELSE k < Len(ch) =>
                                 grids'[ch[k + 1]].focus = EdgeIdx(OppositeEdgeHook(tag))]_vars

\* A move has been resolved by the middle one of three nested grids, for the
\* innermost one, which has no neighbor that way, although the focused entry
\* of the outermost one has a neighbor that way too.
C17_Witness ==
    /\ last.op = "respond" /\ last.resp = "Contained" /\ last.input = RIGHT
    /\ Len(grids) = 3
    /\ grids[3].elems[1].elem.kind = "Grid" /\ grids[3].elems[1].right = BR_IDX
    /\ grids[3].focus = TL_IDX
    /\ grids[2].elems[1].elem.kind = "Grid" /\ grids[2].elems[1].right = BR_IDX
    /\ grids[2].focus = BR_IDX
    /\ \A k \in 1..4 : LinksOf(grids[1].elems[1])[k] < 0
    /\ grids[1].focus = TL_IDX

(***************************************************************************)
(* Alert dispatch: termination                                             *)
(***************************************************************************)
\* The edges of the alert graph of grid g: from entry e to every handle its
\* alert() answers that names an entry of g.
AlertSucc(gs, g, e) == Listed(gs, g, Elem_alert(Holder(gs, g, e).elem).targets)

\* The alert graph reachable from the entries S has a cycle.
AlertCycle(gs, g, S) ==
    \E e \in AlertClosure(gs, g, S) : e \in AlertClosure(gs, g, AlertSucc(gs, g, e))

\* The grid that holds the focused leaf.
Dispatcher(gs) == FocusChain(gs, Root(gs))[Len(FocusChain(gs, Root(gs)))]

\* The focused leaf answers the input with an alert list.
AlertsOn(gs, input) ==
    Elem_respond(St(gs), Dispatcher(gs), gs[Dispatcher(gs)].focus, input).resp.tag = "Alert"

\* C18: the alert dispatch of a respond returns exactly when the alert graph
\* reachable from the alert list has no cycle; with a cycle in it, direct or
\* through other entries, the recursion never ends and respond never returns.
C18_DispatchReturnsIffAcyclic ==
    [][(last'.op = "respond" /\ AlertsOn(grids, last'.input))
          => (crashed' <=> AlertCycle(grids, Dispatcher(grids),
                                      Listed(grids, Dispatcher(grids), RespondTargets)))]_vars

\* A dispatch has not returned from a cycle through two entries, none of
\* which names itself.
C18_Witness ==
    /\ last.op = "respond" /\ crashed
    /\ \A e \in 0..(NumElems(grids, Root(grids)) - 1) :
          e \notin AlertSucc(grids, Root(grids), e)
    /\ \E e \in 0..(NumElems(grids, Root(grids)) - 1) :
          \E f \in AlertSucc(grids, Root(grids), e) : e \in AlertSucc(grids, Root(grids), f)

(***************************************************************************)
(* Focus moves: the order of the hook calls                                *)
(***************************************************************************)
\* The calls grid g makes on its own entries, in order.
CallsOf(l, g) ==
    LET OnG(c) == c.g = g
    IN  Calls(l, OnG)

\* How many of the calls grid g makes on its entries are calls of hooks H.
Count(l, g, H) ==
    LET Hit(c) == c.g = g /\ c.hook \in H
    IN  Len(Calls(l, Hit))

\* The calls of a focus move of grid g from entry o to entry n, entered by
\* hook: a leaf that is entered selects itself, which is the body of its hook.
MoveCalls(gs, g, o, n, hook) ==
    <<Call(g, o, "respond"), Call(g, o, "unselect"), Call(g, n, hook)>>
        \o (IF Holder(gs, g, n).elem.kind = "Grid" THEN <<>> ELSE <<Call(g, n, "select")>>)

\* C19: on a successful focus move the grid that moves has called, in this
\* order and once each, respond on its focused entry, unselect on that entry
\* and the enter hook on the neighbor, which has the focus by then; the grid
\* is as it was when the entry's respond returns; and in every respond the
\* outermost grid makes as many unselect calls as enter calls, also when an
\* entry is its own neighbor.
C19_RespondUnselectEnter ==
    [][(last'.op = "respond" /\ last'.input \in {UP, DOWN, RIGHT, LEFT}) =>
         LET tag == Element_respond(last'.input).tag
             ch  == FocusChain(grids, Root(grids))
             R   == Resolvers(grids, ch, tag)
         IN  /\ Count(log', Root(grids), {"unselect"}) = Count(log', Root(grids), EnterHooks)
             /\ R # {} =>
                  LET r == ch[SetMax(R)]
                      o == grids[r].focus
                      n == Neighbor(Focus(grids, r), tag)
                  IN  /\ CallsOf(log', r) = MoveCalls(grids, r, o, n, OppositeEdgeHook(tag))
                      /\ grids'[r].focus = n
                      /\ Elem_respond(St(grids), r, o, last'.input).st.gs[r] = grids[r]
                      /\ Holder(grids', r, n).elem.kind # "Grid"
                            => Holder(grids', r, n).elem.selected
                      /\ (o # n /\ Holder(grids', r, o).elem.kind # "Grid")
                            => ~Holder(grids', r, o).elem.selected]_vars

\* A grid nested in another has moved its focus from an entry to the same
\* entry, which is its own neighbor.
C19_Witness ==
    /\ last.op = "respond" /\ last.resp = "Contained" /\ last.input = DOWN
    /\ Len(grids) > 1
    /\ Len(FocusChain(grids, Root(grids))) > 1
    /\ LET r == Dispatcher(grids)
       IN  /\ Focus(grids, r).down = grids[r].focus
           /\ CallsOf(log, r) = MoveCalls(grids, r, grids[r].focus, grids[r].focus, "enter_top")

(***************************************************************************)
(* Wiring: what a successful connect writes                                *)
(***************************************************************************)
\* The names of the four link slots of an entry.
Slots == {"up", "down", "right", "left"}

\* The two slots a successful connect writes: <<index, slot, value>>.
Written(op, a, b) ==
    IF op = "connect_up_down"
    THEN {<<a, "down", b>>, <<b, "up", a>>}
    ELSE {<<a, "right", b>>, <<b, "left", a>>}

\* C20: a successful connect_up_down(a, b) leaves a's down link on b and b's
\* up link on a, a successful connect_left_right(l, r) l's right link on r
\* and r's left link on l, whatever the two slots held, also when both
\* handles name one entry; every other link of every entry, the widgets, the
\* number of entries and every focus index are as before.
C20_ConnectWritesTwoSlots ==
    [][(IsConnect(last'.op) /\ last'.res = Ok) =>
         LET g == Root(grids)
             W == Written(last'.op, last'.h1.idx, last'.h2.idx)
         IN  /\ Len(grids') = Len(grids)
             /\ Focuses(grids') = Focuses(grids)
             /\ \A p \in 1..Len(grids) :
                   /\ NumElems(grids', p) = NumElems(grids, p)
                   /\ \A i \in 0..(NumElems(grids, p) - 1) :
                         /\ Holder(grids', p, i).elem = Holder(grids, p, i).elem
                         /\ \A s \in Slots :
                               IF p = g /\ \E w \in W : w[1] = i /\ w[2] = s
                               THEN \A w \in W :
                                       (w[1] = i /\ w[2] = s) => Holder(grids', p, i)[s] = w[3]
                               ELSE Holder(grids', p, i)[s] = Holder(grids, p, i)[s]]_vars

\* An entry has been connected to itself over a link to another entry, which
\* still points back at it.
C20_Witness ==
    /\ last.op = "connect_up_down" /\ last.res = Ok
    /\ last.h1.idx = last.h2.idx
    /\ LET g == Root(grids)
           a == last.h1.idx
       IN  /\ Holder(grids, g, a).down = a /\ Holder(grids, g, a).up = a
           /\ \E i \in 0..(NumElems(grids, g) - 1) :
                 i # a /\ Holder(grids, g, i).up = a

(***************************************************************************)
(* Canvas: text, the cells that carry style bits                           *)
(***************************************************************************)
\* The lines of the most recent text call that store a character in the
\* canvas, and the cells the call stores a character in.
WrittenLines ==
    {k \in LinesIn(cprev, clast.text, clast.x, clast.y) : LineLen(clast.text, k) > 0}
WrittenCells ==
    {cell \in Cells(cprev) :
        \E i \in CharIdx(clast.text) : CellOf(clast.text, i, clast.x, clast.y) = cell}

\* C21: a text call puts style bits only on cells it stores a character in:
\* no cell without a character of the call gains an ON or an OFF bit (so a
\* line without characters sets none), and every line that stores characters
\* has the ON bits of the style on its first and the OFF bits on its last
\* written cell.
C21_BitsOnlyOnWrittenCells ==
    (clast.op = "text" /\ ~StartsOutside) =>
        /\ \A cell \in Cells(canvas) \ WrittenCells :
              /\ ~Gains(OnHalf(PixelAt(cprev, cell)), OnHalf(PixelAt(canvas, cell)))
              /\ ~Gains(OffHalf(PixelAt(cprev, cell)), OffHalf(PixelAt(canvas, cell)))
        /\ \A k \in WrittenLines :
              /\ Has(OnHalf(PixelAt(canvas, <<clast.x, clast.y + k>>)), clast.styles)
              /\ Has(OffHalf(PixelAt(canvas,
                        <<clast.x + Min(LineLen(clast.text, k), cprev.width - clast.x) - 1,
                          clast.y + k>>)), clast.styles)

(***************************************************************************)
(* TextScroller: the window                                                *)
(***************************************************************************)
\* The window can be drawn: it starts at 0 when the text has no more lines
\* than the scroller is high, and ends inside the text otherwise.
WindowInRange(t) ==
    IF t.nlines <= t.height THEN t.window = 0
    ELSE 0 <= t.window /\ t.window <= t.nlines - t.height

\* C22: after any sequence of respond calls the window of a TextScroller of
\* L lines and height H is 0 when L <= H and between 0 and L - H otherwise,
\* and the slice lines[window .. window + H] draw takes is inside the text;
\* an up input at window 0 and a down input at window + H >= L answer the
\* move request and leave the window, otherwise they change the window by
\* exactly one and answer Contained; no other input changes the window.
C22_WindowInRange ==
    /\ WindowInRange(upd.inner)
    /\ clast.op = "draw" => (~clast.panicked /\ clast.slice[2] <= clast.nlines)
    /\ [][ulast'.op = "respond" =>
            LET t == upd.inner
                w == upd'.inner.window
            IN  CASE ulast'.input = UP ->
                       IF t.window = 0
                       THEN ulast'.resp = "MoveUp" /\ w = t.window
                       ELSE ulast'.resp = "Contained" /\ w = t.window - 1
                  [] ulast'.input = DOWN ->
                       IF t.window + t.height >= t.nlines
                       THEN ulast'.resp = "MoveDown" /\ w = t.window
                       ELSE ulast'.resp = "Contained" /\ w = t.window + 1
                  [] OTHER -> w = t.window]_vars

\* A scroller has been drawn with its window on the last lines of its text,
\* where a further down input has been answered with the move request.
C22_Witness ==
    /\ clast.op = "draw" /\ clast.calls # <<>>
    /\ ulast.op = "draw"
    /\ upd.inner.window > 0
    /\ upd.inner.height > 0
    /\ upd.inner.window + upd.inner.height = upd.inner.nlines
    /\ clast.slice = <<upd.inner.window, upd.inner.nlines>>

(***************************************************************************)
(* padded_line: the cells it reaches                                       *)
(***************************************************************************)
\* The buffer indices (from 0) of the clipped run of a padded_line call:
\* row y, columns x .. min(x + length, width) - 1.
PaddedRun(c, x, y, length) ==
    IF x >= c.width \/ y >= c.height THEN {}
    ELSE {y * c.width + col : col \in x..(Min(x + length, c.width) - 1)}

\* C23: every padded_line call of a draw reads and writes only cells of row
\* y at the columns x .. min(x + length, width) - 1: it reaches no cell of
\* another row and no index past the end of the buffer, changes no pixel
\* outside that run, and leaves its OFF bits on the last cell of the run.
C23_PaddedLineInRun ==
    clast.op = "draw" =>
        \A k \in 1..Len(clast.calls) :
            LET call == clast.calls[k]
                run  == PaddedRun(call.before, call.x, call.y, call.length)
            IN  call.op = "padded_line" =>
                  /\ ~call.ub
                  /\ call.touched \subseteq run
                  /\ \A i \in 1..Len(call.before.pixels) :
                        (i - 1) \notin run => call.after.pixels[i] = call.before.pixels[i]
                  /\ run # {} =>
                        Has(OffHalf(call.after.pixels[SetMax(run) + 1]), TextStyles_new)

====
